---- MODULE Spec2Model ----
(***************************************************************************)
(* Model of src/app.py: a Flask process with one route, POST /optimize,    *)
(* whose handler reads the request body, builds a fixed TTOpt              *)
(* configuration, runs the optimizer and returns its info() report, and    *)
(* the objective function f that the optimizer is given.                   *)
(*                                                                         *)
(* Flask, numpy and ttopt are libraries outside the repository.  They are  *)
(* modelled by the contract the handler relies on:                         *)
(*   - request.json yields the parsed body, raises 400 on malformed JSON,  *)
(*     and on a body that is not JSON either raises 415 or yields None     *)
(*     (both outcomes exist, depending on the Flask release);              *)
(*   - an exception leaving the handler becomes an error response and the  *)
(*     process keeps serving; app.run serves requests in threads;          *)
(*   - np.random.seed(42) is called once, at import (line 8), and nowhere  *)
(*     else; what ttopt does with numpy's generator is inside ttopt and is *)
(*     not modelled;                                                       *)
(*   - TTOpt(...) yields a handle, handle.optimize(rank) runs to           *)
(*     completion, handle.info() yields a string; the run itself is one    *)
(*     opaque step, and the string is represented by the configuration and *)
(*     the progress of the run it reports on.                              *)
(*                                                                         *)
(* Numbers: coordinates are integers of the grid domain [a, b]; values of  *)
(* f are in thousandths (fixed point), sin is tabulated in thousandths.    *)
(***************************************************************************)
EXTENDS Integers, Sequences, FiniteSets, TLC

\* ------------------------------------------------------------- constants

\* app.py line 8: np.random.seed(42)
Seed == 42
\* app.py line 10
d == 100
\* app.py line 11
rank == 4
\* app.py lines 113-117: a, b, p, q, evals
GridA == -10
GridB == 10
GridP == 2
GridQ == 12
Evals == 100000
\* app.py line 120: y_opt_real = 0.
YOptReal == 0
\* app.py line 13: the factor 0.1, in thousandths
Tenth == 100

\* ---------------------------------------------------------------- bounds

\* Requests the process receives in one behaviour.
MaxRequests == 2
\* Points in one batch given to f.
MaxBatch == 2

Req == 1..MaxRequests

VARIABLES
    up,         \* the server process is running
    seed,       \* the argument of the process's np.random.seed call
    arrived,    \* number of requests received so far
    body,       \* body[r]: the request body as sent
    pc,         \* pc[r]: the statement of optimize() that r executes next
    data,       \* data[r]: the handler's local `data`
    tto,        \* tto[r]: the handler's local `tto`, <<>> or <<instance>>
    result,     \* result[r]: the handler's local `result`, <<>> or <<string>>
    resp,       \* resp[r]: <<>> or <<the response sent>>
    out,        \* out[r]: what r's handler wrote to stdout
    made,       \* number of TTOpt instances constructed by the process
    steps,      \* history: the statements r has executed, in order
    nOpt,       \* history: how often tto.optimize was invoked for r
    fault,      \* history: the statement at which r's handling raised
    before,     \* history: the requests that had ended when r arrived
    fX,         \* objective: the batch f is applied to
    fY,         \* objective: <<>> or f's result for fX
    fRef        \* objective: <<>> or <<[x, y]>>, an earlier evaluation

handlerVars == <<up, seed, arrived, body, pc, data,
                 tto, result, resp, out, made, steps, nOpt, fault,
                 before>>
fVars == <<fX, fY, fRef>>
vars == <<up, seed, arrived, body, pc, data, tto,
          result, resp, out, made, steps, nOpt, fault, before,
          fX, fY, fRef>>

\* ------------------------------------------------- the objective function

Abs(n) == IF n < 0 THEN -n ELSE n

\* round(1000 * sin(k)) for k = 0..10
SinTable == <<841, 909, 141, -757, -959, -279, 657, 989, 412, -544>>

\* np.sin on an integer argument of [-10, 10], in thousandths; sin is odd.
SinMilli(x) ==
    IF x = 0 THEN 0
    ELSE IF x > 0 THEN SinTable[x]
    ELSE -SinTable[-x]

\* A mutant of Term: the linear part written as the constant 0.1.
TermConstTenth(x) == Abs(x * SinMilli(x) + Tenth)

\* A mutant of Term: the factor x of x * sin(x) left out.
TermNoFactor(x) == Abs(SinMilli(x) + Tenth * x)

\* np.abs(x * np.sin(x) + 0.1 * x) for one coordinate, in thousandths
Term(x) == Abs(x * SinMilli(x) + Tenth * x)

RECURSIVE SumTerms(_, _)
SumTerms(pt, n) == IF n = 0 THEN 0 ELSE SumTerms(pt, n - 1) + Term(pt[n])

\* f(x): np.sum(..., axis=1): one value per row of the batch
f(X) == [i \in 1..Len(X) |-> SumTerms(X[i], Len(X[i]))]

\* -x on a batch
NegBatch(X) == [i \in 1..Len(X) |-> [j \in 1..Len(X[i]) |-> -X[i][j]]]

\* np.ones(n)
Ones(n) == [j \in 1..n |-> 1]

\* ------------------------------------------------------------ the handler

\* The arguments of TTOpt(...) on lines 110-121; the body is not among them.
TTOptArgsFromBody(dat) ==
    [f |-> "f",
     d |-> IF Len(dat) = 2 /\ \E kv \in dat[2] : kv[1] = "d"
           THEN (CHOOSE kv \in dat[2] : kv[1] = "d")[2] ELSE d,
     a |-> GridA, b |-> GridB, p |-> GridP, q |-> GridQ,
     evals |-> Evals, name |-> "Alpine", x_opt_real |-> Ones(d),
     y_opt_real |-> YOptReal, with_log |-> TRUE]

TTOptArgs(dat) ==
    [f |-> "f", d |-> d, a |-> GridA, b |-> GridB, p |-> GridP, q |-> GridQ,
     evals |-> Evals, name |-> "Alpine", x_opt_real |-> Ones(d),
     y_opt_real |-> YOptReal, with_log |-> TRUE]

\* The statements of optimize(), in program order.
NextStepNoRun(s) ==
    CASE s = "read" -> "print"
      [] s = "print" -> "construct"
      [] s = "construct" -> "log"
      [] s = "optimize" -> "log"
      [] s = "log" -> "info"
      [] s = "info" -> "respond"
      [] s = "respond" -> "done"

NextStep(s) ==
    CASE s = "read" -> "print"
      [] s = "print" -> "construct"
      [] s = "construct" -> "optimize"
      [] s = "optimize" -> "log"
      [] s = "log" -> "info"
      [] s = "info" -> "respond"
      [] s = "respond" -> "done"

\* tto.info(): the report string, as the sequence of what determines it.
Info(t) == <<t.cfg.name, t.cfg.d, t.cfg.evals, t.ran, t.finished>>

\* jsonify({"minimum_value": result}): a JSON object as a set of key/value
\* pairs.
JsonifyTwoKeys(res) == {<<"minimum_value", res>>, <<"status", res>>}

Jsonify(res) == {<<"minimum_value", res>>}

Keys(obj) == {kv[1] : kv \in obj}
Value(obj, k) == (CHOOSE kv \in obj : kv[1] = k)[2]

\* The request bodies: two JSON objects, a malformed JSON text, and a request
\* without a JSON body.
Bodies ==
    {[kind |-> "json", obj |-> {}],
     [kind |-> "json", obj |-> {<<"d", 5>>}],
     [kind |-> "malformed", obj |-> {}],
     [kind |-> "missing", obj |-> {}]}

NoBody == [kind |-> "none", obj |-> {}]
WellFormed(b) == b.kind = "json"

\* An exception leaves the handler at statement `step`: Flask answers with
\* its default error response and the process keeps running.
FailCrash(r, status, step) ==
    /\ up' = FALSE
    /\ pc' = [pc EXCEPT ![r] = "done"]
    /\ resp' = [resp EXCEPT ![r] =
                  <<[status |-> status, ctype |-> "text/html", body |-> {}]>>]
    /\ fault' = [fault EXCEPT ![r] = step]

FailRetry(r, status, step) ==
    /\ up' = up
    /\ pc' = [pc EXCEPT ![r] = IF step = "read" THEN "done" ELSE "construct"]
    /\ resp' = [resp EXCEPT ![r] =
                  IF step = "read"
                  THEN <<[status |-> status, ctype |-> "text/html",
                          body |-> {}]>>
                  ELSE <<>>]
    /\ fault' = [fault EXCEPT ![r] = step]

Fail(r, status, step) ==
    /\ up' = up
    /\ pc' = [pc EXCEPT ![r] = "done"]
    /\ resp' = [resp EXCEPT ![r] =
                  <<[status |-> status, ctype |-> "text/html", body |-> {}]>>]
    /\ fault' = [fault EXCEPT ![r] = step]

Init ==
    /\ up = TRUE
    /\ seed = Seed
    /\ arrived = 0
    /\ body = [r \in Req |-> NoBody]
    /\ pc = [r \in Req |-> "idle"]
    /\ data = [r \in Req |-> <<"unset">>]
    /\ tto = [r \in Req |-> <<>>]
    /\ result = [r \in Req |-> <<>>]
    /\ resp = [r \in Req |-> <<>>]
    /\ out = [r \in Req |-> <<>>]
    /\ made = 0
    /\ steps = [r \in Req |-> <<>>]
    /\ nOpt = [r \in Req |-> 0]
    /\ fault = [r \in Req |-> "none"]
    /\ before = [r \in Req |-> {}]
    /\ fX = <<>>
    /\ fY = <<>>
    /\ fRef = <<>>

\* A POST /optimize reaches the running process (lines 16-17, 136-138).
Arrive(b) ==
    /\ up
    /\ arrived < MaxRequests
    /\ arrived' = arrived + 1
    /\ body' = [body EXCEPT ![arrived + 1] = b]
    /\ pc' = [pc EXCEPT ![arrived + 1] = "read"]
    /\ before' = [before EXCEPT ![arrived + 1] =
                     {q \in Req : pc[q] = "done"}]
    /\ UNCHANGED <<up, seed, data, tto, result, resp, out, made, steps, nOpt,
                   fault>>
    /\ UNCHANGED fVars

\* line 19: data = request.json, the body parses
ReadOk(r) ==
    /\ up /\ pc[r] = "read"
    /\ \/ /\ body[r].kind = "json"
          /\ data' = [data EXCEPT ![r] = <<"obj", body[r].obj>>]
       \/ /\ body[r].kind = "missing"
          /\ data' = [data EXCEPT ![r] = <<"None">>]
    /\ pc' = [pc EXCEPT ![r] = NextStep("read")]
    /\ steps' = [steps EXCEPT ![r] = Append(@, "read")]
    /\ UNCHANGED <<up, seed, arrived, body, tto, result, resp, out, made,
                   nOpt, fault, before>>
    /\ UNCHANGED fVars

\* line 19: data = request.json raises (400 malformed JSON, 415 not JSON)
ReadFail(r) ==
    /\ up /\ pc[r] = "read"
    /\ \/ /\ body[r].kind = "malformed"
          /\ Fail(r, 400, "read")
       \/ /\ body[r].kind = "missing"
          /\ Fail(r, 415, "read")
    /\ steps' = [steps EXCEPT ![r] = Append(@, "read")]
    /\ UNCHANGED <<seed, arrived, body, data, tto, result, out, made, nOpt,
                   before>>
    /\ UNCHANGED fVars

\* line 20: print(data)
PrintData(r) ==
    /\ up /\ pc[r] = "print"
    /\ out' = [out EXCEPT ![r] = Append(@, data[r])]
    /\ pc' = [pc EXCEPT ![r] = NextStep("print")]
    /\ steps' = [steps EXCEPT ![r] = Append(@, "print")]
    /\ UNCHANGED <<up, seed, arrived, body, data, tto, result, resp, made,
                   nOpt, fault, before>>
    /\ UNCHANGED fVars

\* lines 110-121: tto = TTOpt(...)
Construct(r) ==
    /\ up /\ pc[r] = "construct"
    /\ tto' = [tto EXCEPT ![r] =
                 <<[cfg |-> TTOptArgs(data[r]), rank |-> 0, ran |-> FALSE,
                    finished |-> FALSE]>>]
    /\ made' = made + 1
    /\ pc' = [pc EXCEPT ![r] = NextStep("construct")]
    /\ steps' = [steps EXCEPT ![r] = Append(@, "construct")]
    /\ UNCHANGED <<up, seed, arrived, body, data, result, resp, out, nOpt,
                   fault, before>>
    /\ UNCHANGED fVars

\* line 124: tto.optimize(rank) is entered
OptimizeCall(r) ==
    /\ up /\ pc[r] = "optimize"
    /\ tto' = [tto EXCEPT ![r] = <<[@[1] EXCEPT !.rank = rank]>>]
    /\ nOpt' = [nOpt EXCEPT ![r] = @ + 1]
    /\ pc' = [pc EXCEPT ![r] = "running"]
    /\ steps' = [steps EXCEPT ![r] = Append(@, "optimize")]
    /\ UNCHANGED <<up, seed, arrived, body, data, result, resp, out, made,
                   fault, before>>
    /\ UNCHANGED fVars

\* line 124, inside the call: the optimizer does its work
Run(r) ==
    /\ up /\ pc[r] = "running"
    /\ ~tto[r][1].ran
    /\ tto' = [tto EXCEPT ![r] = <<[@[1] EXCEPT !.ran = TRUE]>>]
    /\ UNCHANGED <<up, seed, arrived, body, pc, data, result, resp, out, made,
                   steps, nOpt, fault, before>>
    /\ UNCHANGED fVars

\* line 124: tto.optimize(rank) returns
OptimizeReturn(r) ==
    /\ up /\ pc[r] = "running"
    /\ tto[r][1].ran
    /\ tto' = [tto EXCEPT ![r] = <<[@[1] EXCEPT !.finished = TRUE]>>]
    /\ pc' = [pc EXCEPT ![r] = NextStep("optimize")]
    /\ UNCHANGED <<up, seed, arrived, body, data, result, resp, out, made,
                   steps, nOpt, fault, before>>
    /\ UNCHANGED fVars

\* line 127: print('-' * 70 + '\n' + tto.info() + '\n\n')
LogInfo(r) ==
    /\ up /\ pc[r] = "log"
    /\ out' = [out EXCEPT ![r] = Append(@, <<"report", Info(tto[r][1])>>)]
    /\ pc' = [pc EXCEPT ![r] = NextStep("log")]
    /\ steps' = [steps EXCEPT ![r] = Append(@, "log")]
    /\ UNCHANGED <<up, seed, arrived, body, data, tto, result, resp, made,
                   nOpt, fault, before>>
    /\ UNCHANGED fVars

\* line 130: result = tto.info()
ReadInfo(r) ==
    /\ up /\ pc[r] = "info"
    /\ result' = [result EXCEPT ![r] = <<Info(tto[r][1])>>]
    /\ pc' = [pc EXCEPT ![r] = NextStep("info")]
    /\ steps' = [steps EXCEPT ![r] = Append(@, "info")]
    /\ UNCHANGED <<up, seed, arrived, body, data, tto, resp, out, made, nOpt,
                   fault, before>>
    /\ UNCHANGED fVars

\* line 133: return jsonify({"minimum_value": result})
Respond(r) ==
    /\ up /\ pc[r] = "respond"
    /\ resp' = [resp EXCEPT ![r] =
                  <<[status |-> 200, ctype |-> "application/json",
                     body |-> Jsonify(result[r][1])]>>]
    /\ pc' = [pc EXCEPT ![r] = NextStep("respond")]
    /\ steps' = [steps EXCEPT ![r] = Append(@, "respond")]
    /\ UNCHANGED <<up, seed, arrived, body, data, tto, result, out, made,
                   nOpt, fault, before>>
    /\ UNCHANGED fVars

\* One step of r's handler.
Step(r) ==
    \/ ReadOk(r)
    \/ ReadFail(r)
    \/ PrintData(r)
    \/ Construct(r)
    \/ OptimizeCall(r)
    \/ Run(r)
    \/ OptimizeReturn(r)
    \/ LogInfo(r)
    \/ ReadInfo(r)
    \/ Respond(r)

Next ==
    \/ \E b \in Bodies : Arrive(b)
    \/ \E r \in Req : Step(r)

Spec == Init /\ [][Next]_vars

\* A statement after the read raises (lines 20-133 catch nothing): print on
\* line 20 or 127 (a stdout that cannot encode the text, or is closed), a
\* library call, or the serialization.  An exception in tto.optimize is
\* raised inside the call, while the run is under way.
LibraryFault(r) ==
    /\ up
    /\ pc[r] \in {"print", "construct", "running", "log", "info", "respond"}
    /\ Fail(r, 500, IF pc[r] = "running" THEN "optimize" ELSE pc[r])
    /\ UNCHANGED <<seed, arrived, body, data, tto, result, out, made, steps,
                   nOpt, before>>
    /\ UNCHANGED fVars

NextFault ==
    \/ Next
    \/ \E r \in Req : LibraryFault(r)

SpecFault == Init /\ [][NextFault]_vars

\* ------------------------------------------- the objective, applied alone

Coord == GridA..GridB

\* A point of d coordinates: v at the odd places, w at the even places.
Mix(v, w) == [j \in 1..d |-> IF j % 2 = 1 THEN v ELSE w]

\* The points f is applied to: the uniform points of the integer grid (the
\* zero vector and np.ones(d) among them) and the two alternating points of
\* +1 and -1.
SamplePoints == {Mix(v, v) : v \in Coord} \cup {Mix(1, -1), Mix(-1, 1)}

Batches == UNION {[1..n -> SamplePoints] : n \in 1..MaxBatch}

InitF ==
    /\ up = TRUE
    /\ seed = Seed
    /\ arrived = 0
    /\ body = [r \in Req |-> NoBody]
    /\ pc = [r \in Req |-> "idle"]
    /\ data = [r \in Req |-> <<"unset">>]
    /\ tto = [r \in Req |-> <<>>]
    /\ result = [r \in Req |-> <<>>]
    /\ resp = [r \in Req |-> <<>>]
    /\ out = [r \in Req |-> <<>>]
    /\ made = 0
    /\ steps = [r \in Req |-> <<>>]
    /\ nOpt = [r \in Req |-> 0]
    /\ fault = [r \in Req |-> "none"]
    /\ before = [r \in Req |-> {}]
    /\ fX \in Batches
    /\ fY = <<>>
    /\ fRef = <<>>

\* lines 12-13: f is applied to the batch
EvalF ==
    /\ fY = <<>>
    /\ fY' = f(fX)
    /\ UNCHANGED <<fX, fRef>>
    /\ UNCHANGED handlerVars

\* The evaluated batch is kept and f is given its pointwise negation.
NegateInput ==
    /\ fY # <<>>
    /\ fRef = <<>>
    /\ fRef' = <<[x |-> fX, y |-> fY]>>
    /\ fX' = NegBatch(fX)
    /\ fY' = <<>>
    /\ UNCHANGED handlerVars

NextF ==
    \/ EvalF
    \/ NegateInput

SpecF == InitF /\ [][NextF]_vars

\* ================================================================ claims

Done(r) == pc[r] = "done"
Served(r) == Done(r) /\ resp[r] # <<>> /\ resp[r][1].status = 200
Report(r) == Value(resp[r][1].body, "minimum_value")
InFlight(r) == pc[r] \notin {"idle", "done"}
\* r arrived after a request had failed on its body.
AfterFail(r) == \E q \in before[r] : fault[q] = "read"

\* C1: every well-formed POST /optimize ends with a 200 response whose JSON
\* body has exactly the key minimum_value, a non-empty string equal to the
\* optimizer's info() report taken after the run; and while such a request
\* is being handled, its handler can always take its next step.
C1_WellFormedGets200 ==
    \A r \in Req : WellFormed(body[r]) =>
        /\ Done(r) =>
             /\ Len(resp[r]) = 1
             /\ resp[r][1].status = 200
             /\ Keys(resp[r][1].body) = {"minimum_value"}
             /\ Cardinality(resp[r][1].body) = 1
             /\ Len(Report(r)) > 0
             /\ Len(tto[r]) = 1
             /\ tto[r][1].finished
             /\ Report(r) = Info(tto[r][1])
        /\ InFlight(r) => ENABLED Step(r)

C1_Witness ==
    \E r \in Req : WellFormed(body[r]) /\ Served(r)

\* C3: once a request has failed on a malformed or missing body, the process
\* is still running, every well-formed request that arrives afterwards can
\* always take its next step, and when it ends it has its normal 200
\* response.
C3_ServesAfterFailedRequest ==
    (\E q \in Req : fault[q] = "read") =>
        /\ up
        /\ \A r \in Req : (AfterFail(r) /\ WellFormed(body[r])) =>
              /\ InFlight(r) => ENABLED Step(r)
              /\ Done(r) =>
                   /\ Served(r)
                   /\ Keys(resp[r][1].body) = {"minimum_value"}
                   /\ Report(r) = Info(tto[r][1])

C3_Witness ==
    \E q, r \in Req :
        /\ fault[q] = "read" /\ resp[q][1].status \in {400, 415}
        /\ AfterFail(r) /\ WellFormed(body[r]) /\ Served(r)

\* C4: the request body does not influence the run: every optimizer is
\* constructed with f, d=100, a=-10, b=+10, p=2, q=12, evals=1e5,
\* x_opt_real=ones(100), y_opt_real=0, with_log=True and run with rank 4,
\* whatever the body; the body is only read and printed, and every request
\* constructs a configuration of its own.
C4_BodyDoesNotInfluenceRun ==
    /\ \A r \in Req : Len(tto[r]) = 1 =>
          /\ tto[r][1].cfg =
                [f |-> "f", d |-> 100, a |-> -10, b |-> 10, p |-> 2,
                 q |-> 12, evals |-> 100000, name |-> "Alpine",
                 x_opt_real |-> [j \in 1..100 |-> 1], y_opt_real |-> 0,
                 with_log |-> TRUE]
          /\ nOpt[r] > 0 => tto[r][1].rank = 4
          /\ out[r][1] = data[r]
    /\ \A r1, r2 \in Req : (Len(tto[r1]) = 1 /\ Len(tto[r2]) = 1) =>
          tto[r1][1].cfg = tto[r2][1].cfg
    /\ made = Cardinality({r \in Req : Len(tto[r]) = 1})

C4_Witness ==
    \E r1, r2 \in Req :
        /\ Len(tto[r1]) = 1 /\ Len(tto[r2]) = 1
        /\ data[r1] = <<"obj", {}>>
        /\ data[r2] = <<"obj", {<<"d", 5>>}>>
        /\ nOpt[r1] = 1 /\ nOpt[r2] = 1

\* C5: a request whose handling faulted at any statement has ended with an
\* error response, never with a 200 or a body carrying minimum_value; the
\* optimizer was invoked at most once for it, and neither constructed nor
\* invoked when the fault came before the construction (read, print,
\* construct).
C5_NoPartialResultNoRetry ==
    \A r \in Req :
        /\ nOpt[r] <= 1
        /\ fault[r] # "none" =>
             /\ Done(r)
             /\ Len(resp[r]) = 1
             /\ resp[r][1].status \in {400, 415, 500}
             /\ "minimum_value" \notin Keys(resp[r][1].body)
             /\ fault[r] \in {"read", "print", "construct"} =>
                  (tto[r] = <<>> /\ nOpt[r] = 0)
             /\ fault[r] \in {"log", "info", "respond"} =>
                  (nOpt[r] = 1 /\ tto[r][1].finished)

C5_Witness ==
    \E r \in Req :
        /\ fault[r] = "optimize" /\ nOpt[r] = 1
        /\ tto[r][1].ran
        /\ Done(r) /\ resp[r][1].status = 500

\* C6: f applied to a batch returns 0 for every row that is the zero vector
\* of length 100.
C6_ZeroVectorGivesZero ==
    fY # <<>> =>
        \A i \in 1..Len(fX) : fX[i] = [j \in 1..100 |-> 0] => fY[i] = 0

C6_Witness ==
    /\ fY # <<>>
    /\ \E i \in 1..Len(fX) : fX[i] = [j \in 1..100 |-> 0]
    /\ \E i \in 1..Len(fX) : fY[i] # 0

\* C7 as stated: f returns identical output for a batch and for its
\* pointwise negation.
C7_NegationInvariant ==
    (fRef # <<>> /\ fY # <<>>) => fY = fRef[1].y

\* |x * sin(x) - 0.1 * x| summed per row, in thousandths.
RECURSIVE SumMirror(_, _)
SumMirror(pt, n) ==
    IF n = 0 THEN 0
    ELSE SumMirror(pt, n - 1) + Abs(pt[n] * SinMilli(pt[n]) - Tenth * pt[n])

\* C7 as amended: f at the pointwise negation of x is the sum over the
\* coordinates of |x*sin(x) - 0.1*x| (x*sin(x) is even, 0.1*x is odd); it
\* is f(x) for every row all of whose coordinates have x = 0 or sin(x) = 0.
C7_NegationMirrors ==
    (fRef # <<>> /\ fY # <<>>) =>
        \A i \in 1..Len(fY) :
            /\ fY[i] = SumMirror(fRef[1].x[i], Len(fRef[1].x[i]))
            /\ (\A j \in 1..Len(fRef[1].x[i]) :
                    fRef[1].x[i][j] = 0 \/ SinMilli(fRef[1].x[i][j]) = 0)
                => fY[i] = fRef[1].y[i]

C7_Witness ==
    /\ fRef # <<>> /\ fY # <<>>
    /\ fRef[1].x[1] = Ones(d)
    /\ fY[1] # fRef[1].y[1]

\* C8: the statements of one request run in the fixed order read, print,
\* construct, optimize, log, info, respond; optimize is invoked at most once
\* and exactly once before a 200 response; the report is read only after
\* the run has completed, and the response carries that report.
HandlerOrder ==
    <<"read", "print", "construct", "optimize", "log", "info", "respond">>

IsPrefix(s, t) == Len(s) <= Len(t) /\ \A i \in 1..Len(s) : s[i] = t[i]

C8_FixedOrder ==
    \A r \in Req :
        /\ IsPrefix(steps[r], HandlerOrder)
        /\ nOpt[r] <= 1
        /\ result[r] # <<>> =>
             (tto[r][1].finished /\ result[r][1] = Info(tto[r][1]))
        /\ (resp[r] # <<>> /\ resp[r][1].status = 200) =>
             /\ steps[r] = HandlerOrder
             /\ nOpt[r] = 1
             /\ tto[r][1].finished
             /\ tto[r][1].ran
             /\ Report(r) = result[r][1]

C8_Witness ==
    \E r \in Req : Served(r) /\ steps[r] = HandlerOrder

\* C10: the known optimum given to the optimizer is consistent with the
\* objective: x_opt_real has d coordinates and f at x_opt_real is
\* y_opt_real.
C10_KnownOptimumConsistent ==
    \A r \in Req : Len(tto[r]) = 1 =>
        /\ Len(tto[r][1].cfg.x_opt_real) = tto[r][1].cfg.d
        /\ f(<<tto[r][1].cfg.x_opt_real>>)[1] = 1000 * tto[r][1].cfg.y_opt_real

====
